---- MODULE Spec2Model ----
(***************************************************************************)
(* State-machine model of src/Index.js: a Telegram bot that gates image    *)
(* generation behind admin approval, collects base/reference images in a   *)
(* per-chat session, enforces a daily per-user quota and drives a          *)
(* generation backend.                                                     *)
(*                                                                         *)
(* Every handler is an async function: it runs synchronously up to its     *)
(* next `await`, and other handlers may run while it is suspended.  The    *)
(* /generate handler reads and writes the shared stores on both sides of   *)
(* its awaits, so it is modelled span by span and occupies a slot of       *)
(* `handlers` while suspended.  The photo and /fetch_instagram handlers    *)
(* touch the session store only after their one await (getFile,            *)
(* fetchInstagram) has ended, in one synchronous span; they are modelled   *)
(* as one action taken when that span runs.  /start and /status only       *)
(* reply and are not modelled.                                             *)
(***************************************************************************)
EXTENDS Integers, Sequences, FiniteSets, TLC

\* ---------------------------------------------------------------- bounds
MaxInflight == 2      \* /generate handlers suspended at an await at the same time
MaxBase == 3          \* modelled length of session.baseImages
MaxRef == 4           \* modelled length of session.refImages
MaxDay == 1           \* UTC days are 0..MaxDay
MaxAdminMsgs == 1     \* Approve/Deny keyboards outstanding per requester

\* ------------------------------------------------------------ input sets
Users == {"u1", "u2"}                 \* chat ids that talk to the bot
ADMIN_ID == "admin"                   \* process.env.ADMIN_ID
Ids == Users \cup {ADMIN_ID}          \* identities that can press a button
ModelNames == {"Aria", "Bea"}         \* non-empty /model arguments
NoName == ""                          \* modelName undefined (falsy)
FetchResults == {<<>>, <<101, 102>>}  \* lists fetchInstagram can return
\* Values of process.env.DAILY_LIMIT (line 17; 27 when unset).  A limit of 6
\* is met by one batch of 6, or by batches of 2 and 4.
EnvDailyLimit == {6}
Days == 0..MaxDay
Slots == 1..MaxInflight

VARIABLES
  users,        \* users.json: chat id -> status ("absent": no record)
  usage,        \* usage.json: day -> chat id -> count
  today,        \* the UTC day todayStr() returns now
  sessions,     \* the sessions Map: chat id -> session object or NoSession
  handlers,     \* slot -> suspended /generate handler (or Idle)
  backend,      \* generation requests issued and not yet answered
  adminMsgs,    \* requester -> Approve/Deny keyboards the admin still holds
  DAILY_LIMIT,  \* read once from the environment
  out           \* messages sent by the span that ran last

vars == <<users, usage, today, sessions, handlers, backend, adminMsgs,
          DAILY_LIMIT, out>>

\* ------------------------------------------------------------- data model
NoSession == [modelName |-> "<none>", baseImages |-> <<>>, refImages |-> <<>>]

\* `sessions.get(chatId) || { baseImages: [], refImages: [], ... }`
NewSession == [modelName |-> NoName, baseImages |-> <<>>, refImages |-> <<>>]

\* A /generate handler suspended at an await: its locals.  `s` of the code is
\* a reference to the session object: while that object is the one the Map
\* holds for chatId (live), reads of s.modelName and s.baseImages[0] see the
\* Map's session; once another handler has deleted the entry, the object is
\* reachable from this handler alone and keeps the values it had (modelName,
\* baseImage).
Idle ==
  [pc |-> "idle", chatId |-> "-", live |-> FALSE, modelName |-> "", baseImage |-> 0,
   refs |-> <<>>, totalImages |-> 0, i |-> 0, v |-> 0, generated |-> 0]

Msg(to, kind, n, of) == [to |-> to, kind |-> kind, n |-> n, of |-> of]

Min(a, b) == IF a < b THEN a ELSE b

\* Array.prototype.slice(0, n)
Slice(seq, n) == SubSeq(seq, 1, Min(n, Len(seq)))

\* ------------------------------------------------------- user management
\* Faulty variant: the status check passes for everybody.
getUserStatusOpen(chatId) == "approved"

getUserStatus(chatId) == users[chatId]

\* Faulty variant: the record is written whether or not one exists.
ensureUserPendingOverwrites(reg, chatId) ==
  [users |-> [reg EXCEPT ![chatId] = "pending"], created |-> reg[chatId] = "absent"]

\* Faulty variant: no record is ever created.
ensureUserPendingNever(reg, chatId) == [users |-> reg, created |-> FALSE]

\* Faulty variant: a denied user who asks again is made pending again.
ensureUserPendingAgain(reg, chatId) ==
  IF reg[chatId] \in {"absent", "denied"}
  THEN [users |-> [reg EXCEPT ![chatId] = "pending"], created |-> TRUE]
  ELSE [users |-> reg, created |-> FALSE]

\* ensureUserPending run on the registry reg that readUsers() returns:
\* `users` is the registry it leaves in the file, `created` what it returns.
ensureUserPending(reg, chatId) ==
  IF reg[chatId] = "absent"
  THEN [users |-> [reg EXCEPT ![chatId] = "pending"], created |-> TRUE]
  ELSE [users |-> reg, created |-> FALSE]

\* setUserStatus: the registry after the call
setUserStatus(chatId, status) == [users EXCEPT ![chatId] = status]

\* --------------------------------------------------------- usage tracking
getUsageCount(chatId) == usage[today][chatId]

\* Faulty variant: the count is replaced by the amount, not raised by it.
addUsageOverwrites(chatId, add) == [usage EXCEPT ![today][chatId] = add]

addUsage(chatId, add) ==
  [usage EXCEPT ![today][chatId] = usage[today][chatId] + add]

\* ------------------------------------------------------------------- init
Init ==
  /\ users = [u \in Users |-> "absent"]
  /\ usage = [d \in Days |-> [u \in Users |-> 0]]
  /\ today = 0
  /\ sessions = [u \in Users |-> NoSession]
  /\ handlers = [h \in Slots |-> Idle]
  /\ backend = {}
  /\ adminMsgs = [u \in Users |-> 0]
  /\ DAILY_LIMIT \in EnvDailyLimit
  /\ out = <<>>

\* The UTC date changes.
Midnight ==
  /\ today < MaxDay
  /\ today' = today + 1
  /\ out' = <<>>
  /\ UNCHANGED <<users, usage, sessions, handlers, backend, adminMsgs, DAILY_LIMIT>>

\* callback_query, data "request_<id>" pressed by u (lines 194-211).  `sent`
\* is the number of the handler's three transport calls (answerCbQuery, reply,
\* sendMessage to the admin) that succeed before one throws; the throw is
\* caught at line 227.
RequestAccess(u, sent) ==
  /\ sent = 3 => adminMsgs[u] < MaxAdminMsgs
  /\ users' = ensureUserPending(users, u).users
  /\ adminMsgs' = IF sent = 3 THEN [adminMsgs EXCEPT ![u] = @ + 1] ELSE adminMsgs
  /\ out' = SubSeq(<<Msg(u, "answer_request", 0, 0), Msg(u, "request_sent", 0, 0),
                     Msg(ADMIN_ID, "access_request", 0, 0)>>, 1, sent)
  /\ UNCHANGED <<usage, today, sessions, handlers, backend, DAILY_LIMIT>>

\* Faulty variant: the identity test of the approve/deny branches is missing.
IsAdminAnyone(from) == TRUE

\* The test of lines 212 and 218: `String(ctx.from.id) === String(ADMIN_ID)`
IsAdmin(from) == from = ADMIN_ID

\* callback_query, data "<tag>_<cid>" with tag approve or deny (lines 212-226).
\* The admin presses a keyboard it was sent; any other identity can only send
\* the payload itself.  `sent` is the number of the branch's transport calls
\* (answerCbQuery, sendMessage to cid, editMessageText) that succeed before one
\* throws; the edit replaces the admin's message and with it the keyboard.
Decide(from, cid, status, notice, sent) ==
  IF IsAdmin(from)
  THEN /\ adminMsgs[cid] > 0
       /\ users' = setUserStatus(cid, status)
       /\ adminMsgs' = IF sent = 3 THEN [adminMsgs EXCEPT ![cid] = @ - 1] ELSE adminMsgs
       /\ out' = SubSeq(<<Msg(from, "answer_decided", 0, 0), Msg(cid, notice, 0, 0)>>,
                        1, Min(sent, 2))
       /\ UNCHANGED <<usage, today, sessions, handlers, backend, DAILY_LIMIT>>
  ELSE /\ out' = IF sent >= 1 THEN <<Msg(from, "answer_empty", 0, 0)>> ELSE <<>>
       /\ UNCHANGED <<users, usage, today, sessions, handlers, backend, adminMsgs,
                      DAILY_LIMIT>>

ApproveBtn(from, cid, sent) == Decide(from, cid, "approved", "you_are_approved", sent)

DenyBtn(from, cid, sent) == Decide(from, cid, "denied", "you_are_denied", sent)

\* ------------------------------------------------------ suspended handlers
FreeSlots == {h \in Slots : handlers[h].pc = "idle"}

\* The slot a handler that suspends now is kept in.
FreeSlot == CHOOSE h \in FreeSlots : \A g \in FreeSlots : h <= g

\* Faulty variant: the handler starts from an empty session every time.
SessionOrNewFresh(chatId) == NewSession

\* `sessions.get(chatId) || { baseImages: [], refImages: [], ... }`
SessionOrNew(chatId) ==
  IF sessions[chatId] = NoSession THEN NewSession ELSE sessions[chatId]

\* /model <name> (lines 233-245); name = "" is the command without argument.
ModelCmd(u, name) ==
  /\ UNCHANGED <<users, usage, today, handlers, backend, adminMsgs, DAILY_LIMIT>>
  /\ IF name = NoName
     THEN /\ out' = <<Msg(u, "usage_model", 0, 0)>>
          /\ UNCHANGED sessions
     ELSE IF getUserStatus(u) # "approved"
     THEN /\ out' = <<Msg(u, "not_approved", 0, 0)>>
          /\ UNCHANGED sessions
     ELSE /\ sessions' = [sessions EXCEPT ![u] =
                            [SessionOrNew(u) EXCEPT !.modelName = name]]
          /\ out' = <<Msg(u, "model_set", 0, 0)>>

\* ------------------------------------------------------------------ photos
\* The URL of the file of a photo.  Every upload has its own URL: the one
\* that becomes base image n is n, the one that becomes reference n is 10 + n.
FileUrl(s) ==
  IF s.modelName = NoName \/ Len(s.baseImages) < 2
  THEN Len(s.baseImages) + 1
  ELSE 10 + Len(s.refImages) + 1

\* Faulty variant: `&&` for the `||` of line 349.
IsBaseBothNeeded(s) == s.modelName = NoName /\ Len(s.baseImages) < 2

\* The test of line 349: is the photo a base image?
IsBase(s) == s.modelName = NoName \/ Len(s.baseImages) < 2

\* The session after the photo fileUrl is put into it (lines 347-357).
Classify(s, fileUrl) ==
  IF IsBase(s)
  THEN [s EXCEPT !.baseImages = Append(@, fileUrl)]
  ELSE [s EXCEPT !.refImages = Append(@, fileUrl)]

\* bot.on("message") with a photo (lines 327-361); ok = FALSE: getFile threw,
\* which the handler catches.
PhotoMsg(u, ok) ==
  /\ UNCHANGED <<usage, today, handlers, backend, adminMsgs, DAILY_LIMIT>>
  /\ IF getUserStatus(u) # "approved"
     THEN /\ users' = ensureUserPending(users, u).users
          /\ out' = <<Msg(u, "not_approved", 0, 0)>>
          /\ UNCHANGED sessions
     ELSE /\ UNCHANGED users
          /\ LET s == SessionOrNew(u)
                 t == Classify(s, FileUrl(s))
             IN IF ok
                THEN /\ Len(t.baseImages) <= MaxBase
                     /\ Len(t.refImages) <= MaxRef
                     /\ sessions' = [sessions EXCEPT ![u] = t]
                     /\ out' = IF IsBase(s)
                               THEN <<Msg(u, "base_added", Len(t.baseImages), 0)>>
                               ELSE <<Msg(u, "ref_added", Len(t.refImages), 0)>>
                ELSE /\ out' = <<>>
                     /\ UNCHANGED sessions

\* ---------------------------------------------------------- fetch_instagram
\* How the awaits of lines 261 and 263 can end: "aborted" the reply of line 261
\* threw, "throws" fetchInstagram threw, "returns" it returned the list imgs.
FetchOutcomes ==
  {[kind |-> k, imgs |-> <<>>] : k \in {"aborted", "throws"}}
    \cup {[kind |-> "returns", imgs |-> l] : l \in FetchResults}

\* /fetch_instagram <arg> (lines 255-273); hasArg = FALSE is the command
\* without argument.
FetchCmd(u, hasArg, res) ==
  /\ UNCHANGED <<users, usage, today, handlers, backend, adminMsgs, DAILY_LIMIT>>
  /\ IF getUserStatus(u) # "approved"
     THEN out' = <<Msg(u, "not_approved", 0, 0)>> /\ UNCHANGED sessions
     ELSE IF ~hasArg
     THEN out' = <<Msg(u, "usage_fetch", 0, 0)>> /\ UNCHANGED sessions
     ELSE CASE res.kind = "aborted" -> out' = <<>> /\ UNCHANGED sessions
            [] res.kind = "throws" ->
                 out' = <<Msg(u, "fetch_failed", 0, 0)>> /\ UNCHANGED sessions
            [] OTHER ->
                 IF Len(res.imgs) = 0
                 THEN out' = <<Msg(u, "no_images", 0, 0)>> /\ UNCHANGED sessions
                 ELSE /\ Len(SessionOrNew(u).refImages) + Len(res.imgs) <= MaxRef
                      /\ sessions' = [sessions EXCEPT ![u] =
                           [SessionOrNew(u) EXCEPT !.refImages = @ \o res.imgs]]
                      /\ out' = <<Msg(u, "refs_added", Len(res.imgs), 0)>>

\* ---------------------------------------------------------------- generate
variationsPerRef == 2

\* Faulty variant: the plan takes the first two reference images only.
PlanRefsFirstTwo(s) == Slice(s.refImages, 2)

\* Lines 284-286: the references the batch uses and the number of images.
PlanRefs(s) == Slice(s.refImages, 3)
PlanTotal(s) == Len(PlanRefs(s)) * variationsPerRef

\* Faulty variant: the check of line 289 leaves the requested images out.
OverQuotaIgnoresRequest(usedToday, totalImages) == usedToday > DAILY_LIMIT

\* Faulty variant: the check of line 289 rejects a request that ends at the limit.
OverQuotaAtLimit(usedToday, totalImages) == usedToday + totalImages >= DAILY_LIMIT

\* The test of line 289.
OverQuota(usedToday, totalImages) == usedToday + totalImages > DAILY_LIMIT

\* Faulty variant: the reference images are checked before the base images.
GenerateVerdictRefFirst(u) ==
  LET s == sessions[u] IN
  IF getUserStatus(u) # "approved" THEN "not_approved"
  ELSE IF s = NoSession \/ s.modelName = NoName THEN "need_model"
  ELSE IF Len(s.refImages) < 1 THEN "need_ref"
  ELSE IF Len(s.baseImages) < 1 THEN "need_base"
  ELSE IF OverQuota(getUsageCount(u), PlanTotal(s)) THEN "limit_exceeded"
  ELSE "admitted"

\* The reply of the first check that fails (lines 277-291), "admitted" if none.
GenerateVerdict(u) ==
  LET s == sessions[u] IN
  IF getUserStatus(u) # "approved" THEN "not_approved"
  ELSE IF s = NoSession \/ s.modelName = NoName THEN "need_model"
  ELSE IF Len(s.baseImages) < 1 THEN "need_base"
  ELSE IF Len(s.refImages) < 1 THEN "need_ref"
  ELSE IF OverQuota(getUsageCount(u), PlanTotal(s)) THEN "limit_exceeded"
  ELSE "admitted"

\* /generate, up to the await of line 293.
GenerateCmd(u) ==
  /\ UNCHANGED <<users, usage, today, sessions, backend, adminMsgs, DAILY_LIMIT>>
  /\ LET verdict == GenerateVerdict(u)
         s == sessions[u]
     IN IF verdict = "admitted"
        THEN /\ FreeSlots # {}
             /\ handlers' = [handlers EXCEPT ![FreeSlot] =
                  [Idle EXCEPT !.pc = "announce", !.chatId = u, !.live = TRUE,
                               !.refs = PlanRefs(s), !.totalImages = PlanTotal(s)]]
             /\ out' = <<Msg(u, "generating", PlanTotal(s), 0)>>
        ELSE /\ UNCHANGED handlers
             /\ out' = IF verdict = "limit_exceeded"
                       THEN <<Msg(u, verdict, getUsageCount(u), DAILY_LIMIT)>>
                       ELSE <<Msg(u, verdict, 0, 0)>>

\* s.modelName and s.baseImages[0] as the handler in slot h reads them now.
ReadModelName(h) ==
  IF handlers[h].live THEN sessions[handlers[h].chatId].modelName
  ELSE handlers[h].modelName

ReadBaseImage(h) ==
  IF handlers[h].live THEN sessions[handlers[h].chatId].baseImages[1]
  ELSE handlers[h].baseImage

\* The request of line 302 for loop position (i, v) of the handler in slot h.
Request(h, i, v) ==
  [h |-> h, i |-> i, v |-> v, baseImage |-> ReadBaseImage(h),
   refImage |-> handlers[h].refs[i + 1], modelName |-> ReadModelName(h)]

\* Faulty variant: the calls that remain are sent together, not awaited one by one.
IssueAllAtOnce(h, i, v) ==
  {Request(h, j, w) : <<j, w>> \in
     {p \in (0..Len(handlers[h].refs) - 1) \X (0..variationsPerRef - 1) :
        p[1] * variationsPerRef + p[2] >= i * variationsPerRef + v}}

\* The requests the handler in slot h sends when its loop reaches (i, v).
Issue(h, i, v) == {Request(h, i, v)}

\* The handler resumes from the await of line 293 and enters the loop; ok =
\* FALSE: the reply threw, which nothing in the handler catches.
GenAnnounced(h, ok) ==
  /\ handlers[h].pc = "announce"
  /\ out' = <<>>
  /\ UNCHANGED <<users, usage, today, sessions, adminMsgs, DAILY_LIMIT>>
  /\ IF ok
     THEN /\ handlers' = [handlers EXCEPT ![h].pc = "call"]
          /\ backend' = backend \cup Issue(h, 0, 0)
     ELSE /\ handlers' = [handlers EXCEPT ![h] = Idle]
          /\ UNCHANGED backend

\* Faulty variant: the caption number is the position of the call in the batch.
ResultTagOfCall(hd) == hd.i * variationsPerRef + hd.v + 1

\* The caption number of line 307, computed after the push of line 306.
ResultTag(hd) == hd.generated + 1

\* Faulty variant: the ledger is charged for the images produced, not requested.
PostBatchChargesProduced(h, hd, sent) ==
  LET u == hd.chatId IN
  /\ usage' = addUsage(u, hd.generated)
  /\ sessions' = [sessions EXCEPT ![u] = NoSession]
  /\ handlers' = [handlers EXCEPT ![h] = Idle]
  /\ out' = sent \o <<Msg(u, "done", hd.generated, hd.totalImages)>>

\* Faulty variant: the session is kept when the batch ends.
PostBatchKeepsSession(h, hd, sent) ==
  LET u == hd.chatId IN
  /\ usage' = addUsage(u, hd.totalImages)
  /\ sessions' = sessions
  /\ handlers' = [handlers EXCEPT ![h] = Idle]
  /\ out' = sent \o <<Msg(u, "done", hd.generated, hd.totalImages)>>

\* Lines 319-323 run by the handler in slot h, which has sent `sent` already.
\* The other handlers whose `s` is the deleted session object keep it.
PostBatch(h, hd, sent) ==
  LET u == hd.chatId IN
  /\ usage' = addUsage(u, hd.totalImages)
  /\ sessions' = [sessions EXCEPT ![u] = NoSession]
  /\ handlers' = [g \in Slots |->
       IF g = h THEN Idle
       ELSE IF handlers[g].pc # "idle" /\ handlers[g].chatId = u /\ handlers[g].live
       THEN [handlers[g] EXCEPT !.live = FALSE, !.modelName = sessions[u].modelName,
                                !.baseImage = sessions[u].baseImages[1]]
       ELSE handlers[g]]
  /\ out' = sent \o <<Msg(u, "done", hd.generated, hd.totalImages)>>

\* A backend call of the handler in slot h ends (lines 302-317) and the handler
\* runs on to its next backend call or to its end.  outcome: "url" the response
\* has an image URL, "nourl" it has none, "throws" the call threw.  fails: how
\* many of the sends that follow throw (safeSendPhoto swallows a throw; a throw
\* of the reply of line 310 is caught at line 312; a throw of the reply of line
\* 314 ends the handler).
GenReturn(h, outcome, fails) ==
  /\ handlers[h].pc = "call"
  /\ UNCHANGED <<users, today, adminMsgs, DAILY_LIMIT>>
  /\ LET hd0 == handlers[h]
         u == hd0.chatId
         req == CHOOSE r \in backend : r.h = h /\ r.i = hd0.i /\ r.v = hd0.v
         sent == CASE outcome = "url" ->
                        IF fails = 0
                        THEN <<Msg(u, "result", ResultTag(hd0), hd0.totalImages)>>
                        ELSE <<>>
                   [] outcome = "nourl" ->
                        IF fails = 0 THEN <<Msg(u, "no_image", 0, 0)>>
                        ELSE IF fails = 1 THEN <<Msg(u, "gen_error", 0, 0)>>
                        ELSE <<>>
                   [] OTHER ->
                        IF fails = 0 THEN <<Msg(u, "gen_error", 0, 0)>> ELSE <<>>
         aborted == \/ outcome = "nourl" /\ fails = 2
                    \/ outcome = "throws" /\ fails >= 1
         hd == IF outcome = "url" THEN [hd0 EXCEPT !.generated = @ + 1] ELSE hd0
         v1 == IF hd.v + 1 < variationsPerRef THEN hd.v + 1 ELSE 0
         i1 == IF hd.v + 1 < variationsPerRef THEN hd.i ELSE hd.i + 1
     IN IF aborted
        THEN /\ handlers' = [handlers EXCEPT ![h] = Idle]
             /\ backend' = backend \ {req}
             /\ out' = sent
             /\ UNCHANGED <<usage, sessions>>
        ELSE IF i1 < Len(hd.refs)
        THEN /\ handlers' = [handlers EXCEPT ![h] = [hd EXCEPT !.i = i1, !.v = v1]]
             /\ backend' = (backend \ {req}) \cup Issue(h, i1, v1)
             /\ out' = sent
             /\ UNCHANGED <<usage, sessions>>
        ELSE /\ backend' = backend \ {req}
             /\ PostBatch(h, hd, sent)

\* ------------------------------------------------------------ specifications
NoBatch == \A h \in Slots : handlers[h].pc = "idle"

\* One user, who sends /generate only when no batch of theirs is running.  The
\* transport carries the messages of the approval workflow, except that the
\* edit of the admin's message may fail.
Next ==
  \/ RequestAccess("u1", 3)
  \/ \E sent \in 2..3 : ApproveBtn(ADMIN_ID, "u1", sent)
  \/ \E sent \in 2..3 : DenyBtn(ADMIN_ID, "u1", sent)
  \/ \E name \in ModelNames : ModelCmd("u1", name)
  \/ \E ok \in BOOLEAN : PhotoMsg("u1", ok)
  \/ \E res \in FetchOutcomes : FetchCmd("u1", TRUE, res)
  \/ NoBatch /\ GenerateCmd("u1")
  \/ \E h \in Slots, ok \in BOOLEAN : GenAnnounced(h, ok)
  \/ \E h \in Slots, outcome \in {"url", "nourl", "throws"}, fails \in 0..2 :
        GenReturn(h, outcome, fails)

Spec == Init /\ [][Next]_vars

\* The approval workflow with two users: button presses, photos and commands
\* without argument, over a transport that may fail at any call.
NextAccess ==
  \/ \E u \in Users, sent \in 0..3 : RequestAccess(u, sent)
  \/ \E from \in Ids, cid \in Users, sent \in 0..3 : ApproveBtn(from, cid, sent)
  \/ \E from \in Ids, cid \in Users, sent \in 0..3 : DenyBtn(from, cid, sent)
  \/ \E u \in Users, ok \in BOOLEAN : PhotoMsg(u, ok)
  \/ \E u \in Users : ModelCmd(u, NoName)
  \/ \E u \in Users, res \in FetchOutcomes : FetchCmd(u, FALSE, res)
  \/ \E u \in Users : GenerateCmd(u)

SpecAccess == Init /\ [][NextAccess]_vars

\* users.json outlives the process: a start with u1 approved earlier.
InitApproved ==
  /\ users = [u \in Users |-> IF u = "u1" THEN "approved" ELSE "absent"]
  /\ usage = [d \in Days |-> [u \in Users |-> 0]]
  /\ today = 0
  /\ sessions = [u \in Users |-> NoSession]
  /\ handlers = [h \in Slots |-> Idle]
  /\ backend = {}
  /\ adminMsgs = [u \in Users |-> 0]
  /\ DAILY_LIMIT \in EnvDailyLimit
  /\ out = <<>>

\* One approved user whose /generate commands may overlap; photos only, and
\* every backend call and send succeeds.
NextRace ==
  \/ \E name \in ModelNames : ModelCmd("u1", name)
  \/ PhotoMsg("u1", TRUE)
  \/ GenerateCmd("u1")
  \/ \E h \in Slots, ok \in BOOLEAN : GenAnnounced(h, ok)
  \/ \E h \in Slots : GenReturn(h, "url", 0)

SpecRace == InitApproved /\ [][NextRace]_vars

\* One approved user and the change of the UTC date; one batch at a time.
NextDays ==
  \/ Midnight
  \/ ModelCmd("u1", "Aria")
  \/ PhotoMsg("u1", TRUE)
  \/ NoBatch /\ GenerateCmd("u1")
  \/ \E h \in Slots : GenAnnounced(h, TRUE)
  \/ \E h \in Slots, outcome \in {"url", "throws"} : GenReturn(h, outcome, 0)

SpecDays == InitApproved /\ [][NextDays]_vars

\* One approved user, one batch at a time, every outcome of the backend calls
\* and of the sends; a suspended handler is resumed when what it awaits has
\* returned or failed, which every external call eventually does.
NextLive ==
  \/ ModelCmd("u1", "Aria")
  \/ PhotoMsg("u1", TRUE)
  \/ NoBatch /\ GenerateCmd("u1")
  \/ \E h \in Slots, ok \in BOOLEAN : GenAnnounced(h, ok)
  \/ \E h \in Slots, outcome \in {"url", "nourl", "throws"}, fails \in 0..2 :
        GenReturn(h, outcome, fails)

AwaitsEnd ==
  \A h \in Slots :
    /\ WF_vars(\E ok \in BOOLEAN : GenAnnounced(h, ok))
    /\ WF_vars(\E outcome \in {"url", "nourl", "throws"}, fails \in 0..2 :
                 GenReturn(h, outcome, fails))

SpecLive == InitApproved /\ [][NextLive]_vars /\ AwaitsEnd

\* users.json outlives the process: a start with both users approved earlier.
InitBothApproved ==
  /\ users = [u \in Users |-> "approved"]
  /\ usage = [d \in Days |-> [u \in Users |-> 0]]
  /\ today = 0
  /\ sessions = [u \in Users |-> NoSession]
  /\ handlers = [h \in Slots |-> Idle]
  /\ backend = {}
  /\ adminMsgs = [u \in Users |-> 0]
  /\ DAILY_LIMIT \in EnvDailyLimit
  /\ out = <<>>

\* Two approved users within one UTC day.  Each names the model first and
\* uploads while no batch is running; the batches of the two users overlap,
\* and so do two batches of u1; every backend call and send succeeds.
NextLedger ==
  \/ \E u \in Users : sessions[u] = NoSession /\ ModelCmd(u, "Aria")
  \/ \E u \in Users : NoBatch /\ PhotoMsg(u, TRUE)
  \/ GenerateCmd("u1")
  \/ (\A h \in Slots : handlers[h].chatId # "u2") /\ GenerateCmd("u2")
  \/ \E h \in Slots : GenAnnounced(h, TRUE)
  \/ \E h \in Slots : GenReturn(h, "url", 0)

SpecLedger == InitBothApproved /\ [][NextLedger]_vars

\* ------------------------------------------------------------------ claims
\* A gated action of user u: /model, /fetch_instagram, /generate or a photo.
GatedAction(u) ==
  \/ \E name \in ModelNames \cup {NoName} : ModelCmd(u, name)
  \/ \E hasArg \in BOOLEAN, res \in FetchOutcomes : FetchCmd(u, hasArg, res)
  \/ GenerateCmd(u)
  \/ \E ok \in BOOLEAN : PhotoMsg(u, ok)

\* C1: a gated action invoked by a user whose status is not `approved` leaves
\* that user's session and every usage count as they were and issues no
\* backend call (no handler is started, no request is sent).
\* (Stated by contraposition: a step from a state where u is not approved that
\* changes any of them is no gated action of u.)
C1_GatedActionRejected ==
  [][\A u \in Users :
       (/\ users[u] # "approved"
        /\ \/ sessions' # sessions
           \/ usage' # usage
           \/ backend' # backend
           \/ handlers' # handlers)
         => ~GatedAction(u)]_vars

\* C1 witness: a denied user who holds a session and has used quota today has
\* just been told they are not approved.
C1_Witness ==
  /\ users["u1"] = "denied"
  /\ sessions["u1"] # NoSession
  /\ Len(sessions["u1"].refImages) > 0
  /\ usage[today]["u1"] > 0
  /\ out = <<Msg("u1", "not_approved", 0, 0)>>

\* C2: an Approve or Deny button event from an identity other than the admin
\* leaves the whole registry unchanged and sends nothing to the target user.
C2_NonAdminDecisionIgnored ==
  [][\A from \in Ids \ {ADMIN_ID}, cid \in Users :
       (\E sent \in 0..3 : ApproveBtn(from, cid, sent) \/ DenyBtn(from, cid, sent))
         => /\ users' = users
            /\ \A k \in 1..Len(out') :
                 out'[k].kind \notin {"you_are_approved", "you_are_denied"}]_vars

\* C2 witness: u1 has pressed (forged) a decision button and got the empty
\* answer of line 225 while u2's request is pending with the admin.
C2_Witness ==
  /\ out = <<Msg("u1", "answer_empty", 0, 0)>>
  /\ users["u2"] = "pending"
  /\ adminMsgs["u2"] > 0
  /\ users["u1"] = "denied"

\* C7: on any registry the bot can hold, ensureUserPending(U) creates a
\* `pending` record and returns true when U has none, and otherwise returns
\* false and leaves the registry as it is; a second call after a first is a
\* no-op; and the handlers that call it (Request Access, a photo from a user
\* who is not approved) change the registry in exactly that way.
C7_EnsurePending ==
  /\ []\A u \in Users :
         LET r == ensureUserPending(users, u)
             r2 == ensureUserPending(r.users, u)
         IN /\ users[u] = "absent"
                 => r.created /\ r.users = [users EXCEPT ![u] = "pending"]
            /\ users[u] # "absent" => ~r.created /\ r.users = users
            /\ ~r2.created /\ r2.users = r.users
  /\ [][\A u \in Users :
          ((\E sent \in 0..3 : RequestAccess(u, sent))
             \/ (users[u] # "approved" /\ \E ok \in BOOLEAN : PhotoMsg(u, ok)))
            => users' = IF users[u] = "absent"
                        THEN [users EXCEPT ![u] = "pending"] ELSE users]_vars

\* C7 witness: an approved and a denied user have each asked again (button,
\* photo) and kept their status.
C7_Witness ==
  /\ users["u1"] = "approved"
  /\ users["u2"] = "denied"
  /\ out = <<Msg("u2", "not_approved", 0, 0)>>

\* A /generate of u would pass the four preconditions of lines 277-281.
PassesPreconditions(u) ==
  /\ users[u] = "approved"
  /\ sessions[u] # NoSession
  /\ sessions[u].modelName # NoName
  /\ Len(sessions[u].baseImages) >= 1
  /\ Len(sessions[u].refImages) >= 1

\* The number of images a /generate of u asks for: min(3, len(refImages)) * 2.
RequestedTotal(u) == Min(3, Len(sessions[u].refImages)) * 2

\* C4: a /generate that passes the preconditions with getCount + total over
\* the limit is rejected whole: no handler starts, no backend request is sent,
\* the ledger and the session store stay as they are, and the reply reports
\* the usage and the limit.
C4_OverQuotaRejected ==
  [][\A u \in Users :
       (/\ PassesPreconditions(u)
        /\ usage[today][u] + RequestedTotal(u) > DAILY_LIMIT
        /\ GenerateCmd(u))
         => /\ handlers' = handlers
            /\ backend' = backend
            /\ usage' = usage
            /\ sessions' = sessions
            /\ out' = <<Msg(u, "limit_exceeded", usage[today][u], DAILY_LIMIT)>>]_vars

\* C4 witness: with 4 of 6 used, a request for 4 more has just been refused
\* and the session is still there.
C4_Witness ==
  /\ out = <<Msg("u1", "limit_exceeded", 4, DAILY_LIMIT)>>
  /\ usage[today]["u1"] = 4
  /\ PassesPreconditions("u1")
  /\ RequestedTotal("u1") = 4

\* C5: a /generate that passes the preconditions is admitted (a handler starts
\* on the batch) if and only if the count read at the check plus the requested
\* total is at most the limit.
C5_AdmittedIffWithinLimit ==
  [][\A u \in Users :
       (PassesPreconditions(u) /\ GenerateCmd(u))
         => ((\E h \in Slots : handlers[h].pc = "idle" /\ handlers'[h].pc = "announce"
                                 /\ handlers'[h].chatId = u)
               <=> usage[today][u] + RequestedTotal(u) <= DAILY_LIMIT)]_vars

\* C5 witness: a request that ends exactly at the limit, after earlier usage,
\* has been admitted.
C5_Witness ==
  \E h \in Slots :
    /\ handlers[h].pc = "announce"
    /\ usage[today][handlers[h].chatId] > 0
    /\ usage[today][handlers[h].chatId] + handlers[h].totalImages = DAILY_LIMIT

\* The handler in slot h ends its batch in this step with the summary of line
\* 323 (and not by a throw).
BatchFinishes(h) ==
  /\ handlers[h].pc = "call"
  /\ handlers'[h].pc = "idle"
  /\ Len(out') > 0
  /\ out'[Len(out')].kind = "done"

\* C6: the total of an admitted batch is min(3, len(refImages)) * 2; when the
\* batch finishes, the user's count for the day rises by exactly that total and
\* no other count changes, whatever the calls did, and the summary reports the
\* number of images produced, which the calls that gave no image do not count
\* towards.
C6_ChargedForRequested ==
  [][\A h \in Slots :
       /\ (handlers[h].pc = "idle" /\ handlers'[h].pc = "announce")
            => handlers'[h].totalImages = RequestedTotal(handlers'[h].chatId)
       /\ BatchFinishes(h)
            => LET u == handlers[h].chatId
                   d == out'[Len(out')]
               IN /\ usage' = [usage EXCEPT ![today][u] = @ + handlers[h].totalImages]
                  /\ d.of = handlers[h].totalImages
                  /\ d.n \in {handlers[h].generated, handlers[h].generated + 1}
                  /\ d.n <= d.of
       /\ (handlers[h].pc = "call" /\ handlers'[h].pc = "call"
             /\ handlers'[h].generated # handlers[h].generated)
            => ~\E outcome \in {"nourl", "throws"}, fails \in 0..2 :
                  GenReturn(h, outcome, fails)]_vars

\* C6 witness: a batch of 4 has finished with 3 images produced and the count
\* went from 0 to 4.
C6_Witness ==
  /\ Len(out) > 0
  /\ out[Len(out)] = Msg("u1", "done", 3, 4)
  /\ usage[today]["u1"] = 4

\* C8: a photo of an approved user goes to baseImages when the session has no
\* modelName or fewer than 2 base images and to refImages otherwise; that list
\* grows by the one image at its end and nothing else in the session changes.
C8_PhotoClassified ==
  [][\A u \in Users :
       (users[u] = "approved" /\ PhotoMsg(u, TRUE))
         => LET s == IF sessions[u] = NoSession
                     THEN [modelName |-> NoName, baseImages |-> <<>>, refImages |-> <<>>]
                     ELSE sessions[u]
                t == sessions'[u]
            IN /\ t.modelName = s.modelName
               /\ IF s.modelName = NoName \/ Len(s.baseImages) < 2
                  THEN /\ Len(t.baseImages) = Len(s.baseImages) + 1
                       /\ SubSeq(t.baseImages, 1, Len(s.baseImages)) = s.baseImages
                       /\ t.refImages = s.refImages
                  ELSE /\ Len(t.refImages) = Len(s.refImages) + 1
                       /\ SubSeq(t.refImages, 1, Len(s.refImages)) = s.refImages
                       /\ t.baseImages = s.baseImages]_vars

\* C8 witness: with no model name set, a third photo has become a base image.
C8_Witness ==
  /\ out = <<Msg("u1", "base_added", 3, 0)>>
  /\ sessions["u1"].modelName = NoName
  /\ Len(sessions["u1"].baseImages) = 3

\* The position in request order (0-based) of loop position (i, v).
CallIndex(i, v) == i * 2 + v

\* The requests of the handler in slot h that the backend has not answered.
Outstanding(h) == {r \in backend : r.h = h}

\* C9: the calls of a batch are issued one at a time in request order: a
\* handler has at most one call outstanding, the call of its loop position; a
\* call is issued only in the step in which the one before it has returned or
\* failed (the first one when the batch starts), and it is the next in request
\* order; a result photo is sent in the step in which its call returns, before
\* any later call of the batch has ended.
C9_SequentialInOrder ==
  /\ []\A h \in Slots :
         IF handlers[h].pc = "call"
         THEN /\ Cardinality(Outstanding(h)) = 1
              /\ \A r \in Outstanding(h) : r.i = handlers[h].i /\ r.v = handlers[h].v
         ELSE Outstanding(h) = {}
  /\ [][\A h \in Slots :
          /\ \A r \in {q \in backend' : q.h = h} \ Outstanding(h) :
               /\ r.refImage = handlers'[h].refs[r.i + 1]
               /\ IF handlers[h].pc = "announce"
                  THEN CallIndex(r.i, r.v) = 0
                  ELSE /\ handlers[h].pc = "call"
                       /\ Outstanding(h) \cap backend' = {}
                       /\ CallIndex(r.i, r.v) = CallIndex(handlers[h].i, handlers[h].v) + 1
          /\ (\E k \in 1..Len(out') : out'[k].kind = "result")
               => \E g \in Slots :
                    /\ handlers[g].pc = "call"
                    /\ handlers[g].chatId = out'[1].to
                    /\ Outstanding(g) \cap backend' = {}
                    /\ \A r \in {q \in backend' : q.h = g} :
                         CallIndex(r.i, r.v) > CallIndex(handlers[g].i, handlers[g].v)]_vars

\* C9 witness: the sixth call of a batch is outstanding, the result of the
\* fifth has just been sent.
C9_Witness ==
  \E h \in Slots :
    /\ handlers[h].pc = "call"
    /\ handlers[h].i = 2 /\ handlers[h].v = 1
    /\ Len(out) = 1 /\ out[1].kind = "result"

\* C10 as claimed: a result photo is tagged with the 1-based position of its
\* call in request order.
C10_TagIsCallPosition ==
  [][\A h \in Slots :
       (handlers[h].pc = "call" /\ GenReturn(h, "url", 0))
         => out'[1] = Msg(handlers[h].chatId, "result",
                          CallIndex(handlers[h].i, handlers[h].v) + 1,
                          handlers[h].totalImages)]_vars

\* C10 as amended: a result photo is tagged n/total where n is the number of
\* results the batch has produced so far, this one included; n is the position
\* of the call when no earlier call of the batch went without an image, and
\* less than it otherwise.
C10_TagIsResultCount ==
  /\ []\A h \in Slots :
         handlers[h].pc = "call"
           => handlers[h].generated <= CallIndex(handlers[h].i, handlers[h].v)
  /\ [][\A h \in Slots :
          /\ (handlers[h].pc = "call" /\ GenReturn(h, "url", 0))
               => /\ out'[1] = Msg(handlers[h].chatId, "result",
                                   handlers[h].generated + 1, handlers[h].totalImages)
                  /\ handlers'[h].pc = "call"
                       => handlers'[h].generated = handlers[h].generated + 1
          /\ (handlers[h].pc = "call" /\ handlers'[h].pc = "call"
                /\ handlers'[h].generated # handlers[h].generated)
               => ~\E outcome \in {"nourl", "throws"}, fails \in 0..2 :
                     GenReturn(h, outcome, fails)]_vars

\* C10 witness: the third call of a batch of 4 has returned an image after one
\* of the first two gave none; its photo went out tagged 2/4.
C10_Witness ==
  \E h \in Slots :
    /\ handlers[h].pc = "call"
    /\ handlers[h].i = 1 /\ handlers[h].v = 1
    /\ handlers[h].generated = 2
    /\ out = <<Msg(handlers[h].chatId, "result", 2, 4)>>

\* C3: no count of the ledger exceeds the daily limit.
C3_NoDoubleSpend ==
  \A d \in Days, u \in Users : usage[d][u] <= DAILY_LIMIT

\* The session store holds no model name for u: no session, or one without it.
NoModelName(u) == sessions[u] = NoSession \/ sessions[u].modelName = NoName

\* C11: the step in which an admitted batch finishes, whatever its calls did,
\* leaves no session for its user in the store; from then on only /model gives
\* the user a session with a model name, and while there is none a /generate
\* of the (approved) user is rejected for the missing model name and starts
\* nothing; a photo arriving while the user has no session becomes the first
\* base image of a new one.
C11_SessionCleared ==
  [][\A u \in Users :
       /\ \A h \in Slots :
            (BatchFinishes(h) /\ handlers[h].chatId = u) => sessions'[u] = NoSession
       /\ (NoModelName(u) /\ sessions'[u] # NoSession /\ sessions'[u].modelName # NoName)
            => \E name \in ModelNames : ModelCmd(u, name)
       /\ (NoModelName(u) /\ users[u] = "approved" /\ GenerateCmd(u))
            => /\ out' = <<Msg(u, "need_model", 0, 0)>>
               /\ handlers' = handlers
               /\ backend' = backend
       /\ (sessions[u] = NoSession /\ users[u] = "approved" /\ PhotoMsg(u, TRUE))
            => /\ Len(sessions'[u].baseImages) = 1
               /\ sessions'[u].refImages = <<>>
               /\ out' = <<Msg(u, "base_added", 1, 0)>>]_vars

\* C11 witness: a batch of u1 has been charged, the store holds no session of
\* u1, and a /generate of u1 has just been rejected for the missing model name.
C11_Witness ==
  /\ out = <<Msg("u1", "need_model", 0, 0)>>
  /\ users["u1"] = "approved"
  /\ sessions["u1"] = NoSession
  /\ usage[today]["u1"] > 0

C13_DecisionNeverUndone ==
  [][\A u \in Users :
       /\ users[u] \in {"approved", "denied"} => users'[u] \in {"approved", "denied"}
       /\ users[u] # "absent" => users'[u] # "absent"]_vars

\* C13 witness: a denied user has just pressed Request Access again, the
\* request went to the admin, and the user is still denied.
C13_Witness ==
  /\ users["u1"] = "denied"
  /\ out = <<Msg("u1", "answer_request", 0, 0), Msg("u1", "request_sent", 0, 0),
             Msg(ADMIN_ID, "access_request", 0, 0)>>

\* The first of the preconditions (a) approved, (b) session with a model name,
\* (c) a base image, (d) a reference image that fails for u, as the kind of its
\* rejection; "none" when all four hold.
FirstFailing(u) ==
  IF users[u] # "approved" THEN "not_approved"
  ELSE IF NoModelName(u) THEN "need_model"
  ELSE IF sessions[u].baseImages = <<>> THEN "need_base"
  ELSE IF sessions[u].refImages = <<>> THEN "need_ref"
  ELSE "none"

\* C14: a /generate of u for which a precondition fails is answered with the
\* rejection of the first of (a), (b), (c), (d) that fails, and with nothing
\* else; it starts no handler, sends no backend request and leaves session
\* store and ledger as they are.  The answer is the quota rejection, or a
\* batch starts, only when all four hold.
C14_FirstFailingReported ==
  [][\A u \in Users :
       GenerateCmd(u)
         => /\ FirstFailing(u) # "none"
                 => /\ out' = <<Msg(u, FirstFailing(u), 0, 0)>>
                    /\ handlers' = handlers
                    /\ backend' = backend
                    /\ sessions' = sessions
                    /\ usage' = usage
            /\ (out'[1].kind = "limit_exceeded" \/ handlers' # handlers)
                 => FirstFailing(u) = "none"]_vars

\* C14 witness: with a model name set and neither a base nor a reference
\* image, after quota has been used, the missing base image has been reported.
C14_Witness ==
  /\ out = <<Msg("u1", "need_base", 0, 0)>>
  /\ users["u1"] = "approved"
  /\ sessions["u1"] # NoSession
  /\ sessions["u1"].modelName # NoName
  /\ sessions["u1"].baseImages = <<>>
  /\ sessions["u1"].refImages = <<>>
  /\ usage[today]["u1"] > 0

\* C15: an admitted batch plans the first min(3, len(refImages)) reference
\* images of its session and total = 2 * that many calls; its plan never
\* changes; its first call is call 0, every later call is issued in the step
\* in which the call before it ended and is the next in request order (no
\* call is repeated, none is skipped), the call at position (i, v) being for
\* planned reference i with v < 2; the batch finishes in the step in which
\* call total - 1 ends; and a call that throws or returns no image URL, once
\* its notice is sent, is followed by the next call exactly as a successful
\* one is.
C15_PlannedCallsOnce ==
  /\ []\A h \in Slots :
         handlers[h].pc = "call"
           => /\ handlers[h].i \in 0..Len(handlers[h].refs) - 1
              /\ handlers[h].v \in 0..1
              /\ handlers[h].totalImages = 2 * Len(handlers[h].refs)
              /\ \A r \in Outstanding(h) :
                   r.refImage = handlers[h].refs[handlers[h].i + 1]
  /\ [][\A h \in Slots :
          /\ (handlers[h].pc = "idle" /\ handlers'[h].pc = "announce")
               => LET rs == sessions[handlers'[h].chatId].refImages
                  IN /\ handlers'[h].refs = SubSeq(rs, 1, Min(3, Len(rs)))
                     /\ handlers'[h].totalImages = Min(3, Len(rs)) * 2
          /\ (handlers[h].pc # "idle" /\ handlers'[h].pc # "idle")
               => /\ handlers'[h].refs = handlers[h].refs
                  /\ handlers'[h].totalImages = handlers[h].totalImages
          /\ (handlers[h].pc = "announce" /\ handlers'[h].pc = "call")
               => CallIndex(handlers'[h].i, handlers'[h].v) = 0
          /\ (handlers[h].pc = "call" /\ handlers'[h].pc = "call")
               => \/ /\ handlers'[h].i = handlers[h].i
                     /\ handlers'[h].v = handlers[h].v
                     /\ {q \in backend' : q.h = h} = Outstanding(h)
                  \/ CallIndex(handlers'[h].i, handlers'[h].v)
                       = CallIndex(handlers[h].i, handlers[h].v) + 1
          /\ BatchFinishes(h)
               => CallIndex(handlers[h].i, handlers[h].v) + 1 = handlers[h].totalImages
          /\ (/\ handlers[h].pc = "call"
              /\ CallIndex(handlers[h].i, handlers[h].v) + 1 < handlers[h].totalImages
              /\ \E outcome \in {"nourl", "throws"} : GenReturn(h, outcome, 0))
               => /\ handlers'[h].pc = "call"
                  /\ CallIndex(handlers'[h].i, handlers'[h].v)
                       = CallIndex(handlers[h].i, handlers[h].v) + 1]_vars

\* C15 witness: a session holds four reference images; the fifth call of its
\* batch has thrown and the sixth and last, for the third reference, is
\* outstanding.
C15_Witness ==
  \E h \in Slots :
    /\ handlers[h].pc = "call"
    /\ handlers[h].live
    /\ Len(sessions[handlers[h].chatId].refImages) = 4
    /\ handlers[h].totalImages = 6
    /\ handlers[h].i = 2 /\ handlers[h].v = 1
    /\ out = <<Msg(handlers[h].chatId, "gen_error", 0, 0)>>

\* C16 as claimed: every admitted batch eventually reaches its post-batch step
\* (its handler ends with the summary of line 323, the ledger charged and the
\* session cleared in that step).
C16_BatchReachesPostBatch ==
  \A h \in Slots :
    (handlers[h].pc = "announce")
      ~> (/\ handlers[h].pc = "idle"
          /\ Len(out) > 0
          /\ out[Len(out)].kind = "done"
          /\ sessions[out[Len(out)].to] = NoSession)

\* C17: no count of the ledger ever decreases; the ledger changes only in a
\* step in which a /generate handler runs its post-batch step, and every such
\* step, however the handlers of one or of several users interleave, raises
\* the count of today of the handler's user by the batch's total, on top of
\* what the ledger holds at that moment, and leaves every other count as it
\* is.  (By induction the count is the sum of the totals of the user's batches
\* that have reached the post-batch step that day.)
C17_LedgerSumsTotals ==
  [][/\ \A d \in Days, u \in Users : usage'[d][u] >= usage[d][u]
     /\ usage' # usage => \E h \in Slots : BatchFinishes(h)
     /\ \A h \in Slots :
          BatchFinishes(h)
            => usage' = [usage EXCEPT ![today][handlers[h].chatId] =
                           @ + handlers[h].totalImages]]_vars

\* C17 witness: two overlapping batches of 4 of u1 have both been charged (8)
\* and a batch of u2 has just been charged, too.
C17_Witness ==
  /\ usage[today]["u1"] = 8
  /\ usage[today]["u2"] > 0
  /\ Len(out) > 0
  /\ out[Len(out)].kind = "done"
  /\ out[Len(out)].to = "u2"

\* C18 as claimed: no two batches run on the same session, that is, no two
\* /generate handlers in flight hold the session object the store holds for
\* their user.
C18_OneBatchPerSession ==
  \A h \in Slots, g \in Slots :
    (/\ h # g
     /\ handlers[h].pc # "idle"
     /\ handlers[g].pc # "idle"
     /\ handlers[h].chatId = handlers[g].chatId)
      => ~(handlers[h].live /\ handlers[g].live)

\* C19 as claimed: all backend calls of one batch carry the same first base
\* image and the same model name, and the reference image the plan has for
\* their position: a call issued when the one before it has ended has the
\* base image and the model name of the one before it.
C19_InputsFixed ==
  [][\A h \in Slots :
       (handlers[h].pc = "call" /\ handlers'[h].pc = "call")
         => \A r \in Outstanding(h), q \in {x \in backend' : x.h = h} :
              /\ q.baseImage = r.baseImage
              /\ q.modelName = r.modelName
              /\ q.refImage = handlers[h].refs[q.i + 1]]_vars

\* C20: a /fetch_instagram <name> of an approved user whose image-source call
\* throws, or returns an empty list, answers with its message (fetch failed,
\* no images) and leaves the session store as it is, creating no session; one
\* whose call returns images leaves the user with a session whose refImages
\* are the former ones (none if there was no session) followed by the
\* returned URLs in their order, and whose modelName and baseImages are the
\* former ones; no other user's session changes.
C20_FetchAppendsOrAborts ==
  [][\A u \in Users, res \in FetchOutcomes :
       (users[u] = "approved" /\ res.kind # "aborted" /\ FetchCmd(u, TRUE, res))
         => IF res.kind = "throws" \/ res.imgs = <<>>
            THEN /\ sessions' = sessions
                 /\ out' = <<Msg(u, IF res.kind = "throws" THEN "fetch_failed"
                                                         ELSE "no_images", 0, 0)>>
            ELSE LET before == IF sessions[u] = NoSession
                               THEN [modelName |-> NoName, baseImages |-> <<>>,
                                     refImages |-> <<>>]
                               ELSE sessions[u]
                 IN /\ sessions'[u].refImages = before.refImages \o res.imgs
                    /\ sessions'[u].modelName = before.modelName
                    /\ sessions'[u].baseImages = before.baseImages
                    /\ \A w \in Users \ {u} : sessions'[w] = sessions[w]]_vars

\* C20 witness: two fetched images have just been appended after an uploaded
\* reference image of a session with a model name and two base images.
C20_Witness ==
  /\ out = <<Msg("u1", "refs_added", 2, 0)>>
  /\ sessions["u1"].modelName \in ModelNames
  /\ sessions["u1"].baseImages = <<1, 2>>
  /\ sessions["u1"].refImages = <<11, 101, 102>>
====
